---- MODULE Spec2Model ----
(***************************************************************************)
(* State-machine model of the xfsm core (src/src/xfsm.c): the pure Machine *)
(* functions, the action pipeline, and the Service interpreter with its    *)
(* lifecycle and listener table.                                           *)
(*                                                                         *)
(* Dynamic values are modelled as follows.  A context object lives in a    *)
(* heap (objects are shared by reference, never copied, in the source);    *)
(* address 0 is the null pointer.  An object is a map from Keys to         *)
(* integers, Undef marking a missing key.  Functions of the host language  *)
(* are named by strings and interpreted by ValueFn / an action log.        *)
(***************************************************************************)
EXTENDS Integers, Sequences, FiniteSets, TLC

VARIABLES def, heap, svc, active, last, hist

vars == <<def, heap, svc, active, last, hist>>

(* ------------------------------ bounds -------------------------------- *)
MaxCount == 3
MaxListeners == 3

(* --------------------------- dynamic values --------------------------- *)
Undef == -1
NaN == -2
Keys == {"n", "count", "type"}
EmptyObj == [k \in Keys |-> Undef]

\* jsvGetBool: generic truthiness of a returned value
Truthy(v) == v # 0 /\ v # Undef /\ v # NaN

\* A string stored as a context value (the "type" key of an action item)
StrCode(t) == CASE t = "assign" -> 101 [] t = "xstate.assign" -> 102 [] OTHER -> 103

\* ctx.k + 1 in the host language (undefined + 1 is NaN)
AddOne(v) == IF v < 0 THEN NaN ELSE v + 1

\* The host functions used by the definitions, as functions of (ctx, event).
ValueFn(id, m, ev) ==
  CASE id = "incN"     -> AddOne(m["n"])
    [] id = "incCount" -> AddOne(m["count"])
    [] id = "retN"     -> m["n"]
    [] id = "nIsZero"  -> IF m["n"] = 0 THEN 1 ELSE 0
    [] id = "always"   -> 1
    [] id = "never"    -> 0
    [] OTHER           -> Undef

(* ---------------------------- definitions ----------------------------- *)
\* Action items, by the kinds run_actions_raw dispatches on.
NoPayload == [kind |-> "none", fn |-> "", entries |-> <<>>]
FnItem(f) == [kind |-> "fn", name |-> f, exec |-> "", type |-> "",
              assignment |-> NoPayload, entries |-> <<>>]
NameItem(s) == [kind |-> "string", name |-> s, exec |-> "", type |-> "",
                assignment |-> NoPayload, entries |-> <<>>]
ExecItem(f) == [kind |-> "object", name |-> "", exec |-> f, type |-> "",
                assignment |-> NoPayload, entries |-> <<>>]
TypedItem(t) == [kind |-> "object", name |-> "", exec |-> "", type |-> t,
                 assignment |-> NoPayload, entries |-> <<>>]
KeyFn(k, f) == [key |-> k, isFn |-> TRUE, fn |-> f, val |-> Undef]
KeyVal(k, v) == [key |-> k, isFn |-> FALSE, fn |-> "", val |-> v]
AssignMap(es) == [kind |-> "object", name |-> "", exec |-> "", type |-> "",
                  assignment |-> NoPayload, entries |-> es]
\* { type: "xstate.assign", assignment: function (ctx, evt) }
AssignFn(f) == [kind |-> "object", name |-> "", exec |-> "", type |-> "xstate.assign",
                assignment |-> [kind |-> "fn", fn |-> f, entries |-> <<>>],
                entries |-> <<>>]

Cand(tgt, acts, cnd) == [target |-> tgt, actions |-> acts, cond |-> cnd]
NoCond == [kind |-> "none", name |-> ""]
FnCond(f) == [kind |-> "fn", name |-> f]
NameCond(s) == [kind |-> "string", name |-> s]
OnString(t) == [kind |-> "string", cands |-> <<Cand(t, <<>>, NoCond)>>]
OnObject(c) == [kind |-> "object", cands |-> <<c>>]
OnArray(cs) == [kind |-> "array", cands |-> cs]

NoTable == [present |-> FALSE, tbl |-> <<>>]

\* green -NEXT-> yellow -NEXT-> red -NEXT-> green, with an entry action on
\* the initial state and an assignment on entering yellow.
LightCfg ==
  [initial |-> "green",
   hasContext |-> TRUE,
   context |-> [k \in Keys |-> IF k = "n" THEN 0 ELSE Undef],
   states |->
     [s \in {"green", "yellow", "red"} |->
        CASE s = "green" ->
               [entry |-> <<FnItem("logEntry")>>,
                exit |-> <<FnItem("logExit")>>,
                on |-> [e \in {"NEXT"} |-> OnString("yellow")]]
          [] s = "yellow" ->
               [entry |-> <<AssignMap(<<KeyFn("n", "incN")>>)>>,
                exit |-> <<>>,
                on |-> [e \in {"NEXT"} |-> OnString("red")]]
          [] OTHER ->
               [entry |-> <<>>,
                exit |-> <<>>,
                on |-> [e \in {"NEXT"} |-> OnString("green")]]],
   svcOptions |-> NoTable,
   machOptions |-> NoTable,
   options |-> NoTable,
   actions |-> NoTable]

\* guarded candidates, a targetless transition and a guard that never passes
GateCfg ==
  [initial |-> "idle",
   hasContext |-> TRUE,
   context |-> [k \in Keys |-> IF k = "n" THEN 0 ELSE Undef],
   states |->
     [s \in {"idle", "busy"} |->
        CASE s = "idle" ->
               [entry |-> <<AssignMap(<<KeyVal("count", 0)>>), FnItem("logEntry")>>,
                exit |-> <<>>,
                on |-> [e \in {"GO", "INC", "TRY"} |->
                          CASE e = "GO" ->
                                 OnArray(<<Cand("busy", <<FnItem("logA")>>, FnCond("retN")),
                                           Cand("", <<FnItem("logB")>>, FnCond("never"))>>)
                            [] e = "INC" ->
                                 OnObject(Cand("", <<AssignMap(<<KeyFn("n", "incN")>>)>>, NoCond))
                            [] OTHER ->
                                 OnObject(Cand("busy", <<>>, FnCond("never")))]]
          [] OTHER ->
               [entry |-> <<FnItem("logA")>>,
                exit |-> <<FnItem("logExit")>>,
                on |-> [e \in {"GO"} |-> OnString("idle")]]],
   svcOptions |-> NoTable,
   machOptions |-> NoTable,
   options |-> NoTable,
   actions |-> NoTable]

\* a targetless transition and an explicit self-transition on a non-initial
\* state, a named guard, three candidates of which the last is unguarded,
\* and a target that is not a key of states
LoopCfg ==
  [initial |-> "a",
   hasContext |-> TRUE,
   context |-> [k \in Keys |-> IF k = "n" THEN 0 ELSE Undef],
   states |->
     [s \in {"a", "b", "c"} |->
        CASE s = "a" ->
               [entry |-> <<>>,
                exit |-> <<FnItem("logExit")>>,
                on |-> [e \in {"GO", "TICK", "PICK", "LOST"} |->
                          CASE e = "GO" -> OnString("b")
                            [] e = "LOST" -> OnString("nowhere")
                            [] e = "TICK" -> OnObject(Cand("c", <<FnItem("logA")>>, NoCond))
                            [] OTHER ->
                                 OnArray(<<Cand("b", <<>>, NameCond("blocked")),
                                           Cand("c", <<>>, NoCond)>>)]]
          [] s = "b" ->
               [entry |-> <<FnItem("logEntry")>>,
                exit |-> <<FnItem("logExit")>>,
                on |-> [e \in {"TICK", "SELF", "BACK"} |->
                          CASE e = "TICK" -> OnObject(Cand("", <<FnItem("logB")>>, NoCond))
                            [] e = "SELF" -> OnObject(Cand("b", <<FnItem("logA")>>, NoCond))
                            [] OTHER -> OnString("a")]]
          [] OTHER ->
               [entry |-> <<FnItem("logB")>>,
                exit |-> <<>>,
                on |-> [e \in {"GO", "BACK"} |->
                          CASE e = "GO" ->
                                 OnArray(<<Cand("a", <<>>, FnCond("never")),
                                           Cand("b", <<FnItem("logA")>>, FnCond("retN")),
                                           Cand("c", <<FnItem("logB")>>, NoCond)>>)
                            [] OTHER -> OnString("a")]]],
   svcOptions |-> NoTable,
   machOptions |-> NoTable,
   options |-> NoTable,
   actions |-> [present |-> TRUE, tbl |-> <<[name |-> "blocked", fn |-> "never"]>>]]

\* a definition whose initial name is not a key of states, without a context
OrphanCfg ==
  [initial |-> "ghost",
   hasContext |-> FALSE,
   context |-> EmptyObj,
   states |->
     [s \in {"idle"} |->
        [entry |-> <<FnItem("logEntry")>>,
         exit |-> <<>>,
         on |-> [e \in {"GO"} |-> OnObject(Cand("idle", <<>>, FnCond("retN")))]]],
   svcOptions |-> NoTable,
   machOptions |-> NoTable,
   options |-> NoTable,
   actions |-> NoTable]

\* a definition that declares no context: an assignment on INC, a guard that
\* reads the assigned key on GO
BareCfg ==
  [initial |-> "idle",
   hasContext |-> FALSE,
   context |-> EmptyObj,
   states |->
     [s \in {"idle", "busy"} |->
        IF s = "idle"
        THEN [entry |-> <<FnItem("logEntry")>>,
              exit |-> <<>>,
              on |-> [e \in {"INC", "GO"} |->
                        IF e = "INC"
                        THEN OnObject(Cand("", <<AssignMap(<<KeyVal("n", 1)>>)>>, NoCond))
                        ELSE OnObject(Cand("busy", <<>>, FnCond("retN")))]]
        ELSE [entry |-> <<>>,
              exit |-> <<>>,
              on |-> [e \in {"GO"} |-> OnString("idle")]]],
   svcOptions |-> NoTable,
   machOptions |-> NoTable,
   options |-> NoTable,
   actions |-> NoTable]

\* function-form assignments: one that sets a key, one that overwrites a
\* key from its old value, one whose function returns a number
MergeCfg ==
  [initial |-> "idle",
   hasContext |-> TRUE,
   context |-> [k \in Keys |-> IF k = "n" THEN 0 ELSE Undef],
   states |->
     [s \in {"idle", "busy"} |->
        IF s = "idle"
        THEN [entry |-> <<>>,
              exit |-> <<>>,
              on |-> [e \in {"SET", "BUMP", "NOP", "GO"} |->
                        CASE e = "SET" -> OnObject(Cand("", <<AssignFn("setCount")>>, NoCond))
                          [] e = "BUMP" -> OnObject(Cand("", <<AssignFn("bumpN")>>, NoCond))
                          [] e = "NOP" -> OnObject(Cand("", <<AssignFn("retNumber")>>, NoCond))
                          [] OTHER -> OnString("busy")]]
        ELSE [entry |-> <<FnItem("logEntry")>>,
              exit |-> <<>>,
              on |-> [e \in {"GO"} |-> OnString("idle")]]],
   svcOptions |-> NoTable,
   machOptions |-> NoTable,
   options |-> NoTable,
   actions |-> NoTable]

\* action lists that mix assignments, functions and names: a function
\* between two assignments, names resolved through the tables (the Machine
\* options define "known", the definition's default actions define "known"
\* differently and "onlyDefault"), an object item whose type names nothing,
\* and a function that throws ("boom") after an assignment, in the initial
\* state's entry list and in a transition's list
PipeCfg(declared) ==
  [initial |-> "idle",
   hasContext |-> declared,
   context |-> IF declared THEN [k \in Keys |-> IF k = "n" THEN 0 ELSE Undef] ELSE EmptyObj,
   states |->
     [s \in {"idle", "busy"} |->
        IF s = "idle"
        THEN [entry |-> <<AssignMap(<<KeyVal("count", 0)>>), FnItem("boom")>>,
              exit |-> <<>>,
              on |-> [e \in {"STEP", "NAMED", "TYPED", "FAIL"} |->
                        CASE e = "STEP" ->
                               OnObject(Cand("", <<AssignMap(<<KeyFn("n", "incN")>>),
                                                   FnItem("logA"),
                                                   AssignMap(<<KeyVal("count", 1)>>),
                                                   FnItem("logB")>>, NoCond))
                          [] e = "NAMED" ->
                               OnObject(Cand("", <<NameItem("known"), NameItem("onlyDefault"),
                                                   NameItem("missing"), FnItem("logEntry")>>,
                                             NoCond))
                          [] e = "TYPED" ->
                               OnObject(Cand("", <<TypedItem("missing"), FnItem("logEntry")>>,
                                             NoCond))
                          [] OTHER ->
                               OnObject(Cand("busy", <<AssignMap(<<KeyFn("n", "incN")>>),
                                                       FnItem("boom"), FnItem("logB")>>,
                                             NoCond))]]
        ELSE [entry |-> <<FnItem("logEntry")>>,
              exit |-> <<>>,
              on |-> [e \in {"STEP"} |-> OnString("idle")]]],
   svcOptions |-> NoTable,
   machOptions |-> [present |-> TRUE, tbl |-> <<[name |-> "known", fn |-> "logA"]>>],
   options |-> NoTable,
   actions |-> [present |-> TRUE, tbl |-> <<[name |-> "known", fn |-> "logB"],
                                            [name |-> "onlyDefault", fn |-> "logB"]>>]]

\* a definition without an initial state name
NoInitCfg ==
  [initial |-> "",
   hasContext |-> TRUE,
   context |-> [k \in Keys |-> IF k = "n" THEN 0 ELSE Undef],
   states |->
     [s \in {"idle"} |->
        [entry |-> <<FnItem("logEntry")>>,
         exit |-> <<>>,
         on |-> [e \in {"STEP"} |-> OnString("idle")]]],
   svcOptions |-> NoTable,
   machOptions |-> NoTable,
   options |-> NoTable,
   actions |-> NoTable]

\* callbacks that send to their own service: E1 from the initial state a
\* runs the action "resend"; E3 enters b without it; E2 leads from a to c
\* and from b to d
RelayCfg ==
  [initial |-> "a",
   hasContext |-> TRUE,
   context |-> [k \in Keys |-> IF k = "n" THEN 0 ELSE Undef],
   states |->
     [s \in {"a", "b", "c", "d"} |->
        CASE s = "a" ->
               [entry |-> <<>>,
                exit |-> <<>>,
                on |-> [e \in {"E1", "E2", "E3"} |->
                          CASE e = "E1" -> OnObject(Cand("b", <<FnItem("resend")>>, NoCond))
                            [] e = "E2" -> OnObject(Cand("c", <<FnItem("logA")>>, NoCond))
                            [] OTHER -> OnString("b")]]
          [] s = "b" ->
               [entry |-> <<>>,
                exit |-> <<>>,
                on |-> [e \in {"E1", "E2"} |->
                          IF e = "E1" THEN OnObject(Cand("d", <<FnItem("resend")>>, NoCond))
                          ELSE OnString("d")]]
          [] OTHER ->
               [entry |-> <<>>,
                exit |-> <<>>,
                on |-> [e \in {"E3"} |-> OnString("a")]]],
   svcOptions |-> NoTable,
   machOptions |-> NoTable,
   options |-> NoTable,
   actions |-> NoTable]

DefIds == {"light", "gate"}
LoopDefIds == {"loop", "bare"}
MergeDefIds == {"merge"}
MachDefIds == {"light", "gate", "loop", "orphan"}
ActDefIds == {"pipe", "rawpipe", "noinit"}
RelayDefIds == {"relay"}
Cfg(d) ==
  CASE d = "light" -> LightCfg
    [] d = "loop" -> LoopCfg
    [] d = "orphan" -> OrphanCfg
    [] d = "bare" -> BareCfg
    [] d = "merge" -> MergeCfg
    [] d = "pipe" -> PipeCfg(TRUE)
    [] d = "rawpipe" -> PipeCfg(FALSE)
    [] d = "noinit" -> NoInitCfg
    [] d = "relay" -> RelayCfg
    [] OTHER -> GateCfg

(* ------------------------------ Machine ------------------------------- *)
NoState == [present |-> FALSE, value |-> "", ctx |-> 0, actions |-> <<>>, changed |-> FALSE]

\* new_state_obj: { value, context, actions, changed }
new_state_obj(value, ctx, acts, changed) ==
  [present |-> TRUE, value |-> value, ctx |-> ctx, actions |-> acts, changed |-> changed]

\* address of config.context in the heap (0 when the definition has none)
CfgCtx(cfg) == IF cfg.hasContext THEN 1 ELSE 0

\* the object at an address; a null pointer is replaced by a fresh empty
\* object wherever the source passes "ctx ? ctx : jsvNewObject()"
Deref(h, a) == IF a = 0 THEN EmptyObj ELSE h[a]

\* an initial state that carries the exit list instead of the entry list
InitialStateExitList(cfg) ==
  IF cfg.initial = "" THEN NoState
  ELSE LET exitArr == IF cfg.initial \in DOMAIN cfg.states
                      THEN cfg.states[cfg.initial].exit ELSE <<>>
       IN new_state_obj(cfg.initial, CfgCtx(cfg), exitArr, FALSE)

xfsm_machine_initial_state(cfg) ==
  IF cfg.initial = "" THEN NoState
  ELSE LET entryArr == IF cfg.initial \in DOMAIN cfg.states
                       THEN cfg.states[cfg.initial].entry ELSE <<>>
       IN new_state_obj(cfg.initial, CfgCtx(cfg), entryArr, FALSE)

\* a normalization that coerces any other value to a string and uses it as
\* the type (for a value that is neither a string nor an object, the type
\* field of the model's event holds its string coercion)
NormalizeCoerce(event) ==
  CASE event.kind = "string" -> [ok |-> TRUE, type |-> event.type]
    [] event.kind = "object" -> [ok |-> TRUE, type |-> IF event.hasType THEN event.type ELSE ""]
    [] OTHER -> [ok |-> TRUE, type |-> event.type]

\* a normalization that loses the text of a bare string
NormalizeDropString(event) ==
  CASE event.kind = "string" -> [ok |-> TRUE, type |-> ""]
    [] event.kind = "object" -> [ok |-> TRUE, type |-> IF event.hasType THEN event.type ELSE ""]
    [] OTHER -> [ok |-> FALSE, type |-> ""]

\* event normalization: string -> {type: s}; object without a string type
\* gets type ""; anything else is rejected
xfsm_normalize_event(event) ==
  CASE event.kind = "string" -> [ok |-> TRUE, type |-> event.type]
    [] event.kind = "object" -> [ok |-> TRUE, type |-> IF event.hasType THEN event.type ELSE ""]
    [] OTHER -> [ok |-> FALSE, type |-> ""]

GuardEntry(name, m) ==
  [kind |-> "guard", name |-> name, lid |-> 0, val |-> "", ctx |-> m,
   cur |-> "", status |-> "", own |-> EmptyObj]

\* a candidate passes when it has no cond, when its cond is not a function,
\* or when the function's result is truthy
CandPass(c, m, evType) ==
  IF c.cond.kind = "fn" THEN Truthy(ValueFn(c.cond.name, m, evType)) ELSE TRUE

\* index of the selected candidate of on[event], 0 when none passes
SelectCand(spec, m, evType) ==
  LET passing == {i \in 1..Len(spec.cands) : CandPass(spec.cands[i], m, evType)}
  IN CASE spec.kind = "string" -> 1
       [] passing = {} -> 0
       [] OTHER -> CHOOSE i \in passing : \A j \in passing : i <= j

\* a selection that evaluates the guard of every candidate
GuardCallsAll(spec, m, evType) ==
  LET f[i \in 0..Len(spec.cands)] ==
        IF i = 0 THEN <<>>
        ELSE IF spec.cands[i].cond.kind = "fn"
             THEN Append(f[i-1], GuardEntry(spec.cands[i].cond.name, m))
             ELSE f[i-1]
  IN IF spec.kind = "string" THEN <<>> ELSE f[Len(spec.cands)]

\* the guard functions invoked while selecting, in call order
GuardCalls(spec, m, evType) ==
  LET sel == SelectCand(spec, m, evType)
      upto == IF sel = 0 THEN Len(spec.cands) ELSE sel
      f[i \in 0..Len(spec.cands)] ==
        IF i = 0 THEN <<>>
        ELSE IF spec.cands[i].cond.kind = "fn"
             THEN Append(f[i-1], GuardEntry(spec.cands[i].cond.name, m))
             ELSE f[i-1]
  IN IF spec.kind = "string" THEN <<>> ELSE f[upto]

NoCand == Cand("", <<>>, NoCond)
NoTransition == [ok |-> FALSE, st |-> NoState, glog |-> <<>>, cand |-> NoCand]

\* on[event] of the source node; kind "absent" when there is no such entry
NoSpec == [kind |-> "absent", cands |-> <<>>]
CandidatesOrAny(srcNode, evType) ==
  CASE evType \in DOMAIN srcNode.on -> srcNode.on[evType]
    [] DOMAIN srcNode.on = {} -> NoSpec
    [] OTHER -> srcNode.on[CHOOSE e \in DOMAIN srcNode.on : TRUE]
Candidates(srcNode, evType) ==
  IF evType \in DOMAIN srcNode.on THEN srcNode.on[evType] ELSE NoSpec

\* actions = exit[] + transition.actions[] + (entry[] if targeted)
BuildActionsEntryFirst(exitArr, transActs, entryArr) == entryArr \o exitArr \o transActs
BuildActions(exitArr, transActs, entryArr) == exitArr \o transActs \o entryArr

\* changed = targeted and the target differs from the source
ChangedIfTargeted(targetless, fromBuf, toBuf) == ~targetless
Changed(targetless, fromBuf, toBuf) == ~targetless /\ fromBuf # toBuf

\* stateOrValue is [kind: "none" | "object" | "string", value, ctx]
NoPrev == [kind |-> "none", value |-> "", ctx |-> 0]
PrevObj(st) == [kind |-> "object", value |-> st.value, ctx |-> st.ctx]
PrevName(v) == [kind |-> "string", value |-> v, ctx |-> 0]

xfsm_machine_transition_ex(h, cfg, stateOrValue, evType) ==
  LET from0 == IF stateOrValue.kind = "none" THEN "" ELSE stateOrValue.value
      gc0 == IF stateOrValue.kind = "object" THEN stateOrValue.ctx ELSE 0
      fromBuf == IF from0 = "" THEN cfg.initial ELSE from0
      guardCtx == IF gc0 = 0 THEN CfgCtx(cfg) ELSE gc0
      m == Deref(h, guardCtx)
  IN IF evType = "" \/ fromBuf = "" \/ fromBuf \notin DOMAIN cfg.states
     THEN NoTransition
     ELSE LET srcNode == cfg.states[fromBuf]
          IN IF Candidates(srcNode, evType).kind = "absent"
             THEN NoTransition
             ELSE LET spec == Candidates(srcNode, evType)
                      sel == SelectCand(spec, m, evType)
                      glog == GuardCalls(spec, m, evType)
                  IN IF sel = 0
                     THEN [ok |-> FALSE, st |-> NoState, glog |-> glog, cand |-> NoCand]
                     ELSE LET candSel == spec.cands[sel]
                              toBuf == candSel.target
                              targetless == (toBuf = "")
                              entryArr == IF ~targetless /\ toBuf \in DOMAIN cfg.states
                                          THEN cfg.states[toBuf].entry ELSE <<>>
                              allActs == BuildActions(srcNode.exit, candSel.actions, entryArr)
                              changed == Changed(targetless, fromBuf, toBuf)
                          IN [ok |-> TRUE,
                              st |-> new_state_obj(IF targetless THEN fromBuf ELSE toBuf,
                                                   guardCtx, allActs, changed),
                              glog |-> glog, cand |-> candSel]

(* -------------------------- action pipeline --------------------------- *)
\* The world threaded through a call: the heap, the services, the call log.
World(h, sv, lg) == [heap |-> h, svc |-> sv, log |-> lg]

\* a call as recorded: the arguments, and what the service object (the
\* call's "this") shows at the time: state value, status, _context
ActionEntry(w, i, name, m) ==
  [kind |-> "action", name |-> name, lid |-> 0, val |-> "", ctx |-> m,
   cur |-> w.svc[i].state.value, status |-> w.svc[i].status,
   own |-> Deref(w.heap, w.svc[i].ctx)]

\* a call that is handed the service's stored _context instead of the
\* context the list is working on
CallActionStored(w, i, name, ctx) ==
  [w EXCEPT !.log = Append(@, ActionEntry(w, i, name, Deref(w.heap, w.svc[i].ctx)))]

\* jspExecuteFunction(fn, service, 2, {ctx, event}) for an action function:
\* the call is recorded, its result is discarded
CallAction(w, i, name, ctx) ==
  [w EXCEPT !.log = Append(@, ActionEntry(w, i, name, Deref(w.heap, ctx)))]

\* a lookup that falls through to the later tables of the chain
ActsMapFallThrough(cfg) ==
  [present |-> TRUE,
   tbl |-> cfg.svcOptions.tbl \o cfg.machOptions.tbl \o cfg.options.tbl \o cfg.actions.tbl]

\* What the callbacks of the host program do besides being called: the
\* action "resend" sends E2 to its own service (the "this" of the call);
\* the listener "cbSend" does so when it is notified of state "b".
Resends(name, value) ==
  CASE name = "resend" -> [kind |-> "string", type |-> "E2", hasType |-> TRUE]
    [] name = "cbSend" /\ value = "b" -> [kind |-> "string", type |-> "E2", hasType |-> TRUE]
    [] OTHER -> [kind |-> "undefined", type |-> "", hasType |-> FALSE]

\* the value a re-entrant send returned to the callback that made it
ReplyEntry(w, i, name, ret) ==
  [kind |-> "reply", name |-> name, lid |-> 0, val |-> ret, ctx |-> EmptyObj,
   cur |-> w.svc[i].state.value, status |-> w.svc[i].status,
   own |-> Deref(w.heap, w.svc[i].ctx)]

\* the named-actions table: first one present in the chain
ActsMap(cfg) ==
  CASE cfg.svcOptions.present  -> cfg.svcOptions
    [] cfg.machOptions.present -> cfg.machOptions
    [] cfg.options.present     -> cfg.options
    [] OTHER                   -> cfg.actions

\* jsvObjectGetChild(actsMap, name): the function stored under name, "" if none
Lookup(table, name) ==
  LET hits == {j \in 1..Len(table.tbl) : table.tbl[j].name = name}
  IN IF ~table.present \/ hits = {} THEN "" ELSE table.tbl[CHOOSE j \in hits : TRUE].fn

\* "if (!*pCtx || !jsvIsObject(*pCtx)) *pCtx = jsvNewObject()"
EnsureCtx(wc) ==
  IF wc.ctx # 0 THEN wc
  ELSE [w |-> [wc.w EXCEPT !.heap = Append(@, EmptyObj)], ctx |-> Len(wc.w.heap) + 1]

SetChild(wc, key, v) ==
  [wc EXCEPT !.w.heap[wc.ctx][key] = v]

\* the keys of an object-form action item, as assignment entries: a "type"
\* child is an own key of the item like any other
OwnEntries(item) ==
  (IF item.type # "" THEN <<KeyVal("type", StrCode(item.type))>> ELSE <<>>) \o item.entries

\* object-map payload { key: const | fn(ctx, evt) }, key by key in order
RECURSIVE ApplyMap(_, _, _, _)
ApplyMap(wc, entries, evType, k) ==
  IF k > Len(entries) THEN wc
  ELSE LET e == entries[k]
           out == IF e.isFn THEN ValueFn(e.fn, wc.w.heap[wc.ctx], evType) ELSE e.val
       IN ApplyMap(IF out # Undef THEN SetChild(wc, e.key, out) ELSE wc,
                   entries, evType, k + 1)

\* functions that return a patch object (or a non-object) for function-form assign
PatchFn(id, m, evType) ==
  CASE id = "bumpN" -> [isObj |-> TRUE, entries |-> <<KeyVal("n", AddOne(m["n"]))>>]
    [] id = "setCount" -> [isObj |-> TRUE, entries |-> <<KeyVal("count", 1)>>]
    [] id = "setBoth" -> [isObj |-> TRUE,
                          entries |-> <<KeyVal("n", 0), KeyVal("count", AddOne(m["count"]))>>]
    [] OTHER -> [isObj |-> FALSE, entries |-> <<>>]

\* a merge that replaces the context by the returned object
MergePatchReplace(wc, entries, evType) ==
  ApplyMap([wc EXCEPT !.w.heap[wc.ctx] = EmptyObj], entries, evType, 1)

\* the object returned by a function-form assignment, merged key by key
MergePatch(wc, entries, evType) == ApplyMap(wc, entries, evType, 1)

\* an assignment whose patch is applied a second time
ApplyAssignmentTwice(wc0, item, evType) ==
  LET wc == EnsureCtx(wc0)
      payload == IF item.assignment.kind # "none" THEN item.assignment
                 ELSE [kind |-> "map", fn |-> "", entries |-> OwnEntries(item)]
  IN IF payload.kind = "fn"
     THEN LET res == PatchFn(payload.fn, wc.w.heap[wc.ctx], evType)
          IN IF res.isObj THEN MergePatch(wc, res.entries, evType) ELSE wc
     ELSE ApplyMap(ApplyMap(wc, payload.entries, evType, 1), payload.entries, evType, 1)

apply_assignment(wc0, item, evType) ==
  LET wc == EnsureCtx(wc0)
      payload == IF item.assignment.kind # "none" THEN item.assignment
                 ELSE [kind |-> "map", fn |-> "", entries |-> OwnEntries(item)]
  IN IF payload.kind = "fn"
     THEN LET res == PatchFn(payload.fn, wc.w.heap[wc.ctx], evType)
          IN IF res.isObj THEN MergePatch(wc, res.entries, evType) ELSE wc
     ELSE ApplyMap(wc, payload.entries, evType, 1)

\* the function an item calls, "" if it calls none, by the dispatch order:
\* A a function; B1 { exec }; B2 { type } found in the table (an assign type
\* calls nothing); C a name found in the table
Callee(cfg, item) ==
  LET actsMap == ActsMap(cfg)
  IN CASE item.kind = "fn" -> item.name
       [] item.kind = "object" ->
            IF item.exec # "" THEN item.exec
            ELSE IF item.type \in {"xstate.assign", "assign"} THEN ""
            ELSE IF item.type # "" THEN Lookup(actsMap, item.type)
            ELSE ""
       [] item.kind = "string" -> Lookup(actsMap, item.name)
       [] OTHER -> ""

(* ------------------------------ Service ------------------------------- *)
SvcIds == {1, 2}

\* xfsm_service_init: bind the machine, alias config.context as _context,
\* seed _state with the initial state, status NotStarted
xfsm_service_init(cfg) ==
  [status |-> "NotStarted",
   state |-> xfsm_machine_initial_state(cfg),
   ctx |-> CfgCtx(cfg),
   listeners |-> <<>>,
   nextId |-> 1]

ListenerEntry(w, i, l, st) ==
  [kind |-> "listener", name |-> l.cb, lid |-> l.id, val |-> st.value,
   ctx |-> Deref(w.heap, st.ctx),
   cur |-> w.svc[i].state.value, status |-> w.svc[i].status,
   own |-> Deref(w.heap, w.svc[i].ctx)]

Ret(w, r) == [w |-> w, ret |-> r]

\* start(): the "already running?" test
AlreadyRunningNever(s) == FALSE
AlreadyRunning(s) == s.status = "Running"

\* a commit that leaves the state object's context as the Machine built it
ReflectCtxNever(st, ctx) == st

\* "if (ctx)": the context the actions ran on is also set on the state object
ReflectCtx(st, ctx) == IF ctx # 0 THEN [st EXCEPT !.ctx = ctx] ELSE st

\* a commit that drops the context the actions ran on
CommitStateDropCtx(s, ctx, next) == [s EXCEPT !.state = next]

\* a commit that also marks the service stopped
CommitStateStops(s, ctx, next) ==
  [s EXCEPT !.ctx = IF ctx # 0 THEN ctx ELSE @, !.state = next, !.status = "Stopped"]

\* "if (ctx)" _context := ctx; _state := next.  Nothing else is written.
CommitState(s, ctx, next) ==
  [s EXCEPT !.ctx = IF ctx # 0 THEN ctx ELSE @, !.state = next]

\* start(): "if (!st) return 0"
StartFailsNever(st) == FALSE
StartFails(st) == ~st.present

\* a stop that keeps the listener table
StopKeepListeners(w, i) ==
  Ret([w EXCEPT !.svc[i].status = "Stopped"], "svc")

\* a stop that resets the status instead of marking the service stopped
StopResets(w, i) ==
  Ret([w EXCEPT !.svc[i].status = "NotStarted", !.svc[i].listeners = <<>>], "svc")

xfsm_service_stop(w, i) ==
  Ret([w EXCEPT !.svc[i].status = "Stopped", !.svc[i].listeners = <<>>], "svc")

\* send(): the "must be running" test
SendRunningAlways(s) == TRUE
SendRunning(s) == s.status = "Running"

\* send(): the prior state handed to the transition function (a null pointer)
SendPrev(s) == NoPrev

\* Sends nest as deep as callbacks make them.  The model follows one send
\* nested in a send: the definitions Nested... are the steps of send() as
\* they run inside a callback.  A send made from inside a nested send is cut
\* off and its result marked "cut" (NoCutReached: the callbacks of the
\* definitions never make one).
NestedBody(w, i, cfg, name, value) ==
  IF Resends(name, value).kind = "undefined" THEN w
  ELSE [w EXCEPT !.log = Append(@, ReplyEntry(w, i, name, "cut"))]

NestedRunItem(wc, i, cfg, item, evType) ==
  LET f == Callee(cfg, item)
  IN IF f # ""
     THEN [wc EXCEPT !.w = NestedBody(CallAction(wc.w, i, f, wc.ctx), i, cfg, f, "")]
     ELSE IF item.kind = "object" THEN apply_assignment(wc, item, evType)
     ELSE wc

NestedRunFrom(wc, i, cfg, acts, evType, k) ==
  LET f[j \in (k - 1)..Len(acts)] ==
        IF j = k - 1 THEN wc
        ELSE NestedRunItem(f[j - 1], i, cfg, acts[j], evType)
  IN IF k > Len(acts) THEN wc ELSE f[Len(acts)]

NestedRunActions(w, i, cfg, ctx, acts, evType) ==
  NestedRunFrom([w |-> w, ctx |-> ctx], i, cfg, acts, evType, 1)

NestedNotify(w, i, cfg) ==
  LET ls == w.svc[i].listeners
      st == w.svc[i].state
      f[k \in 0..Len(ls)] ==
        IF k = 0 THEN w
        ELSE LET wk == f[k-1]
             IN NestedBody([wk EXCEPT !.log = Append(@, ListenerEntry(wk, i, ls[k], st))],
                           i, cfg, ls[k].cb, st.value)
  IN IF st.present THEN f[Len(ls)] ELSE w

SendNested(w, i, cfg, event) ==
  IF event.kind = "undefined" \/ ~SendRunning(w.svc[i]) THEN Ret(w, "0")
  ELSE LET evt == xfsm_normalize_event(event)
       IN IF ~evt.ok THEN Ret(w, "0")
          ELSE LET t == xfsm_machine_transition_ex(w.heap, cfg, SendPrev(w.svc[i]), evt.type)
                   w1 == [w EXCEPT !.log = @ \o t.glog]
               IN IF ~t.ok THEN Ret(w1, "0")
                  ELSE LET r == NestedRunActions(w1, i, cfg, w.svc[i].ctx, t.st.actions,
                                                 evt.type)
                           next == ReflectCtx(t.st, r.ctx)
                           w2 == [r.w EXCEPT !.svc[i] = CommitState(@, r.ctx, next)]
                       IN Ret(NestedNotify(w2, i, cfg), next.value)

\* the body of a callback, run synchronously inside the call: the send it
\* makes through its service, whose result it is handed
Replied(r, i, name) ==
  [r.w EXCEPT !.log = Append(@, ReplyEntry(r.w, i, name, r.ret))]

Body(w, i, cfg, name, value) ==
  IF Resends(name, value).kind = "undefined" THEN w
  ELSE Replied(SendNested(w, i, cfg, Resends(name, value)), i, name)

\* one item of the list: the call it makes, or, for an object item that
\* makes none (an assign type, or B3: not handled so far), an assignment
RunItem(wc, i, cfg, item, evType) ==
  LET f == Callee(cfg, item)
  IN IF f # ""
     THEN [wc EXCEPT !.w = Body(CallAction(wc.w, i, f, wc.ctx), i, cfg, f, "")]
     ELSE IF item.kind = "object" THEN apply_assignment(wc, item, evType)
     ELSE wc

\* the items k, k+1, ... of the list, in order
RunFrom(wc, i, cfg, acts, evType, k) ==
  LET f[j \in (k - 1)..Len(acts)] ==
        IF j = k - 1 THEN wc
        ELSE RunItem(f[j - 1], i, cfg, acts[j], evType)
  IN IF k > Len(acts) THEN wc ELSE f[Len(acts)]

\* run_actions_raw(service, &ctx, actionsArr, eventObj, from, to);
\* the result is the world and the (possibly replaced) context pointer
run_actions_raw(w, i, cfg, ctx, acts, evType) ==
  RunFrom([w |-> w, ctx |-> ctx], i, cfg, acts, evType, 1)

\* a notification that misses the first listener of the table
NotifySkipFirst(w, i, cfg) ==
  LET ls == w.svc[i].listeners
      st == w.svc[i].state
      f[k \in 0..Len(ls)] ==
        IF k <= 1 THEN w
        ELSE LET wk == f[k-1]
             IN Body([wk EXCEPT !.log = Append(@, ListenerEntry(wk, i, ls[k], st))],
                     i, cfg, ls[k].cb, st.value)
  IN IF st.present THEN f[Len(ls)] ELSE w

\* call every listener, in table order, with the _state read before the
\* first call
xfsm_notify_listeners(w, i, cfg) ==
  LET ls == w.svc[i].listeners
      st == w.svc[i].state
      f[k \in 0..Len(ls)] ==
        IF k = 0 THEN w
        ELSE LET wk == f[k-1]
             IN Body([wk EXCEPT !.log = Append(@, ListenerEntry(wk, i, ls[k], st))],
                     i, cfg, ls[k].cb, st.value)
  IN IF st.present THEN f[Len(ls)] ELSE w

\* send(), once the action list has run (r: the world and the context it
\* left): reflect the context on the next state, commit, notify, return the
\* next state's value
Committed(r, i, cfg, st) ==
  LET next == ReflectCtx(st, r.ctx)
      w2 == [r.w EXCEPT !.svc[i] = CommitState(@, r.ctx, next)]
  IN Ret(xfsm_notify_listeners(w2, i, cfg), next.value)

xfsm_service_send(w, i, cfg, event) ==
  IF event.kind = "undefined" \/ ~SendRunning(w.svc[i]) THEN Ret(w, "0")
  ELSE LET evt == xfsm_normalize_event(event)
       IN IF ~evt.ok THEN Ret(w, "0")
          ELSE LET t == xfsm_machine_transition_ex(w.heap, cfg, SendPrev(w.svc[i]), evt.type)
                   w1 == [w EXCEPT !.log = @ \o t.glog]
               IN IF ~t.ok THEN Ret(w1, "0")
                  ELSE Committed(run_actions_raw(w1, i, cfg, w.svc[i].ctx, t.st.actions,
                                                 evt.type), i, cfg, t.st)

\* start(): the state a (re)start begins from
StartStateResume(s, cfg) ==
  IF s.status = "Stopped" /\ s.state.present THEN s.state ELSE xfsm_machine_initial_state(cfg)
StartState(s, cfg) == xfsm_machine_initial_state(cfg)

\* The callbacks that start() runs (entry actions of the initial state,
\* listeners told of the initial state) are followed as those of a nested
\* send are: they make no send in the definitions (NoCutReached).
\* a start that notifies before it commits state and status
StartNotifyFirst(w, i, cfg) ==
  IF AlreadyRunning(w.svc[i]) THEN Ret(w, "svc")
  ELSE LET st == StartState(w.svc[i], cfg)
       IN IF StartFails(st) THEN Ret(w, "0")
          ELSE LET r == NestedRunActions(w, i, cfg, w.svc[i].ctx, st.actions, "xstate.init")
                   st2 == ReflectCtx(st, r.ctx)
                   w2 == NestedNotify(r.w, i, cfg)
               IN Ret([w2 EXCEPT !.svc[i] = [CommitState(@, r.ctx, st2)
                                               EXCEPT !.status = "Running"]], "svc")

xfsm_service_start(w, i, cfg) ==
  IF AlreadyRunning(w.svc[i]) THEN Ret(w, "svc")
  ELSE LET st == StartState(w.svc[i], cfg)
       IN IF StartFails(st) THEN Ret(w, "0")
          ELSE LET r == NestedRunActions(w, i, cfg, w.svc[i].ctx, st.actions, "xstate.init")
                   st2 == ReflectCtx(st, r.ctx)
                   w2 == [r.w EXCEPT !.svc[i] = [CommitState(@, r.ctx, st2)
                                                   EXCEPT !.status = "Running"]]
               IN Ret(NestedNotify(w2, i, cfg), "svc")

\* getState(): the stored _state, nothing written
xfsm_service_get_state(w, i) ==
  Ret(w, IF w.svc[i].state.present THEN w.svc[i].state.value ELSE "0")

\* getStatus(): the stored _status, nothing written
xfsm_service_get_status(w, i) == Ret(w, w.svc[i].status)

\* the numeric status: NotStarted=0, Running=1, Stopped=2 (as a numeral)
xfsm_service_get_status_num(w, i) ==
  Ret(w, CASE w.svc[i].status = "Running" -> "1"
           [] w.svc[i].status = "Stopped" -> "2"
           [] OTHER -> "0")

\* subscribe(callback): fresh id from a monotonic counter, callback stored
\* under it at the end of the table
service_subscribe(w, i, cb) ==
  Ret([w EXCEPT !.svc[i].listeners = Append(@, [id |-> w.svc[i].nextId, cb |-> cb]),
                !.svc[i].nextId = @ + 1], "handle")

\* an unsubscribe handle that closes over a shared id instead of its own
MakeUnsubscribeShared(i, id) == [svc |-> i, id |-> 1]

\* the unsubscribe handle: a closure over the service and the handle's own id
xfsm_make_unsubscribe(i, id) == [svc |-> i, id |-> id]

\* an _unsubById that reports a removal whether or not the id was there
UnsubByIdAlwaysTrue(w, i, id) ==
  LET ls == w.svc[i].listeners
      keep == {k \in 1..Len(ls) : ls[k].id # id}
      f[k \in 0..Len(ls)] ==
        IF k = 0 THEN <<>> ELSE IF k \in keep THEN Append(f[k-1], ls[k]) ELSE f[k-1]
  IN Ret([w EXCEPT !.svc[i].listeners = f[Len(ls)]], "true")

\* _unsubById(id): remove that id if present
service_unsubById(w, i, id) ==
  LET ls == w.svc[i].listeners
      keep == {k \in 1..Len(ls) : ls[k].id # id}
      f[k \in 0..Len(ls)] ==
        IF k = 0 THEN <<>> ELSE IF k \in keep THEN Append(f[k-1], ls[k]) ELSE f[k-1]
  IN IF Cardinality(keep) = Len(ls) THEN Ret(w, "false")
     ELSE Ret([w EXCEPT !.svc[i].listeners = f[Len(ls)]], "true")

\* handle.unsubscribe(): "return m._unsubById(i)"
handle_unsubscribe(w, h) == service_unsubById(w, h.svc, h.id)

(* ------------------------- Machine.transition ------------------------- *)
\* the string-event entry point: wraps the string as {type} and delegates;
\* guard calls are the only calls it makes
NoResult(w) == [w |-> w, ok |-> FALSE, st |-> NoState, cand |-> NoCand]
TransitionRunsActions(w, cfg, stateOrValue, eventStr) ==
  IF eventStr.kind # "string"
  THEN NoResult(w)
  ELSE LET t == xfsm_machine_transition_ex(w.heap, cfg, stateOrValue, eventStr.type)
           w1 == [w EXCEPT !.log = @ \o t.glog]
       IN [w |-> IF t.ok
                 THEN NestedRunActions(w1, 1, cfg, t.st.ctx, t.st.actions, eventStr.type).w
                 ELSE w1,
           ok |-> t.ok, st |-> t.st, cand |-> t.cand]
xfsm_machine_transition(w, cfg, stateOrValue, eventStr) ==
  IF eventStr.kind # "string"
  THEN NoResult(w)
  ELSE LET t == xfsm_machine_transition_ex(w.heap, cfg, stateOrValue, eventStr.type)
       IN [w |-> [w EXCEPT !.log = @ \o t.glog], ok |-> t.ok, st |-> t.st, cand |-> t.cand]

(* --------------------------- the state machine ------------------------ *)
Ev(k, t, h) == [kind |-> k, type |-> t, hasType |-> h]
Events ==
  {Ev("string", t, TRUE) : t \in {"NEXT", "GO", "INC", "TRY", "BOGUS"}}
    \cup {Ev("object", "NEXT", TRUE), Ev("object", "GO", TRUE), Ev("object", "", FALSE),
          Ev("number", "", FALSE), Ev("array", "GO", FALSE)}
LoopEvents ==
  {Ev("string", t, TRUE) : t \in {"GO", "TICK", "PICK", "SELF", "BACK", "LOST", "INC"}}
    \cup {Ev("object", "TICK", TRUE)}
MergeEvents ==
  {Ev("string", t, TRUE) : t \in {"SET", "BUMP", "NOP", "GO"}}
    \cup {Ev("object", "BUMP", TRUE)}
RelayEvents == {Ev("string", t, TRUE) : t \in {"E1", "E2", "E3"}}
ActEvents == {Ev("string", t, TRUE) : t \in {"STEP", "NAMED", "TYPED", "FAIL"}}
EventsFor(d) ==
  CASE d \in LoopDefIds -> LoopEvents
    [] d \in ActDefIds -> ActEvents
    [] d \in RelayDefIds -> RelayEvents
    [] d \in MergeDefIds -> MergeEvents
    [] OTHER -> Events
NoEvent == Ev("undefined", "", FALSE)
Callbacks == {"cbA", "cbB"}
CallbacksFor(d) == IF d \in RelayDefIds THEN {"cbA", "cbSend"} ELSE Callbacks

InitHeap(cfg) == IF cfg.hasContext THEN <<cfg.context>> ELSE <<>>

\* History kept for stating the properties (not program state):
\*   fold[i]    the state value obtained by folding the transition function
\*              over the events sent to service i since its last start
\*   gone[i]    listener ids whose handle's unsubscribe() has been called
\*   cleared[i] listener ids that were in the table at a stop()
Init ==
  /\ def \in DefIds
  /\ heap = InitHeap(Cfg(def))
  /\ svc = [i \in SvcIds |-> xfsm_service_init(Cfg(def))]
  /\ active = {1}
  /\ last = [op |-> "init", sid |-> 1, event |-> NoEvent, id |-> 0, ret |-> "",
             pre |-> xfsm_service_init(Cfg(def)), preHeap |-> InitHeap(Cfg(def)),
             log |-> <<>>, preGone |-> {}, preCleared |-> {},
             prev |-> NoPrev, ok |-> FALSE, st |-> NoState, cand |-> NoCand]
  /\ hist = [fold |-> [i \in SvcIds |-> ""],
             gone |-> [i \in SvcIds |-> {}],
             cleared |-> [i \in SvcIds |-> {}]]

\* every counter in the heap is still below the cap
Small == \A a \in DOMAIN heap : \A k \in Keys : heap[a][k] < MaxCount

\* Machine.transition from a committed state value, with the service's context
FoldStep(h, cfg, s, v, event) ==
  LET evt == xfsm_normalize_event(event)
      t == xfsm_machine_transition_ex(h, cfg, PrevObj([value |-> v, ctx |-> s.ctx]), evt.type)
  IN IF evt.ok /\ t.ok THEN t.st.value ELSE v

Ids(ls) == {ls[k].id : k \in 1..Len(ls)}

Commit(op, i, event, id, r) ==
  /\ heap' = r.w.heap
  /\ svc' = r.w.svc
  /\ last' = [op |-> op, sid |-> i, event |-> event, id |-> id, ret |-> r.ret,
              pre |-> svc[i], preHeap |-> heap, log |-> r.w.log,
              preGone |-> hist.gone[i], preCleared |-> hist.cleared[i],
              prev |-> NoPrev, ok |-> FALSE, st |-> NoState, cand |-> NoCand]
  /\ hist' = [fold |-> [hist.fold EXCEPT ![i] =
                          CASE op = "start" /\ svc[i].status # "Running" -> Cfg(def).initial
                            [] op = "send" /\ svc[i].status = "Running" ->
                                 FoldStep(heap, Cfg(def), svc[i], @, event)
                            [] OTHER -> @],
              gone |-> [hist.gone EXCEPT ![i] = IF op = "unsubscribe" THEN @ \cup {id} ELSE @],
              cleared |-> [hist.cleared EXCEPT ![i] =
                             IF op = "stop" THEN @ \cup Ids(svc[i].listeners) ELSE @]]
  /\ UNCHANGED <<def, active>>

Start == \E i \in active :
  Commit("start", i, NoEvent, 0, xfsm_service_start(World(heap, svc, <<>>), i, Cfg(def)))

Stop == \E i \in active :
  Commit("stop", i, NoEvent, 0, xfsm_service_stop(World(heap, svc, <<>>), i))

Send == \E i \in active, e \in EventsFor(def) :
  /\ Small
  /\ Commit("send", i, e, 0, xfsm_service_send(World(heap, svc, <<>>), i, Cfg(def), e))

Subscribe == \E i \in active, cb \in CallbacksFor(def) :
  /\ svc[i].nextId <= MaxListeners
  /\ Commit("subscribe", i, NoEvent, svc[i].nextId,
            service_subscribe(World(heap, svc, <<>>), i, cb))

\* any handle returned by an earlier subscribe may be called at any time
Unsubscribe == \E i \in active, id \in 1..MaxListeners :
  /\ id < svc[i].nextId
  /\ Commit("unsubscribe", i, NoEvent, id,
            handle_unsubscribe(World(heap, svc, <<>>), xfsm_make_unsubscribe(i, id)))

Next == Start \/ Stop \/ Send \/ Subscribe \/ Unsubscribe

Spec == Init /\ [][Next]_vars

\* the same operations on a definition with a targetless transition and a
\* self-transition away from the initial state, and on a definition that
\* declares no context
InitLoop ==
  /\ def \in LoopDefIds
  /\ heap = InitHeap(Cfg(def))
  /\ svc = [i \in SvcIds |-> xfsm_service_init(Cfg(def))]
  /\ active = {1}
  /\ last = [op |-> "init", sid |-> 1, event |-> NoEvent, id |-> 0, ret |-> "",
             pre |-> xfsm_service_init(Cfg(def)), preHeap |-> InitHeap(Cfg(def)),
             log |-> <<>>, preGone |-> {}, preCleared |-> {},
             prev |-> NoPrev, ok |-> FALSE, st |-> NoState, cand |-> NoCand]
  /\ hist = [fold |-> [i \in SvcIds |-> ""],
             gone |-> [i \in SvcIds |-> {}],
             cleared |-> [i \in SvcIds |-> {}]]

SpecLoop == InitLoop /\ [][Next]_vars

\* two services interpreted from the same machine, started, stopped and
\* sent events in any interleaving
PairInit ==
  /\ def \in DefIds
  /\ heap = InitHeap(Cfg(def))
  /\ svc = [i \in SvcIds |-> xfsm_service_init(Cfg(def))]
  /\ active = SvcIds
  /\ last = [op |-> "init", sid |-> 1, event |-> NoEvent, id |-> 0, ret |-> "",
             pre |-> xfsm_service_init(Cfg(def)), preHeap |-> InitHeap(Cfg(def)),
             log |-> <<>>, preGone |-> {}, preCleared |-> {},
             prev |-> NoPrev, ok |-> FALSE, st |-> NoState, cand |-> NoCand]
  /\ hist = [fold |-> [i \in SvcIds |-> ""],
             gone |-> [i \in SvcIds |-> {}],
             cleared |-> [i \in SvcIds |-> {}]]

PairNext == Start \/ Stop \/ Send

PairSpec == PairInit /\ [][PairNext]_vars

\* one service of the definition with function-form assignments
MergeInit ==
  /\ def \in MergeDefIds
  /\ heap = InitHeap(Cfg(def))
  /\ svc = [i \in SvcIds |-> xfsm_service_init(Cfg(def))]
  /\ active = {1}
  /\ last = [op |-> "init", sid |-> 1, event |-> NoEvent, id |-> 0, ret |-> "",
             pre |-> xfsm_service_init(Cfg(def)), preHeap |-> InitHeap(Cfg(def)),
             log |-> <<>>, preGone |-> {}, preCleared |-> {},
             prev |-> NoPrev, ok |-> FALSE, st |-> NoState, cand |-> NoCand]
  /\ hist = [fold |-> [i \in SvcIds |-> ""],
             gone |-> [i \in SvcIds |-> {}],
             cleared |-> [i \in SvcIds |-> {}]]

MergeSpec == MergeInit /\ [][PairNext]_vars

\* the action pipeline and the read-only getters, on definitions with mixed
\* action lists (with and without a declared context) and on a definition
\* without an initial state
ActInit ==
  /\ def \in ActDefIds
  /\ heap = InitHeap(Cfg(def))
  /\ svc = [i \in SvcIds |-> xfsm_service_init(Cfg(def))]
  /\ active = {1}
  /\ last = [op |-> "init", sid |-> 1, event |-> NoEvent, id |-> 0, ret |-> "",
             pre |-> xfsm_service_init(Cfg(def)), preHeap |-> InitHeap(Cfg(def)),
             log |-> <<>>, preGone |-> {}, preCleared |-> {},
             prev |-> NoPrev, ok |-> FALSE, st |-> NoState, cand |-> NoCand]
  /\ hist = [fold |-> [i \in SvcIds |-> ""],
             gone |-> [i \in SvcIds |-> {}],
             cleared |-> [i \in SvcIds |-> {}]]

GetState == \E i \in active :
  Commit("getState", i, NoEvent, 0, xfsm_service_get_state(World(heap, svc, <<>>), i))

GetStatus == \E i \in active :
  Commit("getStatus", i, NoEvent, 0, xfsm_service_get_status(World(heap, svc, <<>>), i))

GetStatusNum == \E i \in active :
  Commit("getStatusNum", i, NoEvent, 0,
         xfsm_service_get_status_num(World(heap, svc, <<>>), i))

ActNext == Start \/ Stop \/ Send \/ Subscribe \/ GetState \/ GetStatus \/ GetStatusNum

ActSpec == ActInit /\ [][ActNext]_vars

\* a service whose actions and listeners send to it while a send is running
RelayInit ==
  /\ def \in RelayDefIds
  /\ heap = InitHeap(Cfg(def))
  /\ svc = [i \in SvcIds |-> xfsm_service_init(Cfg(def))]
  /\ active = {1}
  /\ last = [op |-> "init", sid |-> 1, event |-> NoEvent, id |-> 0, ret |-> "",
             pre |-> xfsm_service_init(Cfg(def)), preHeap |-> InitHeap(Cfg(def)),
             log |-> <<>>, preGone |-> {}, preCleared |-> {},
             prev |-> NoPrev, ok |-> FALSE, st |-> NoState, cand |-> NoCand]
  /\ hist = [fold |-> [i \in SvcIds |-> ""],
             gone |-> [i \in SvcIds |-> {}],
             cleared |-> [i \in SvcIds |-> {}]]

RelaySpec == RelayInit /\ [][Next]_vars

(* ------------------- the Machine functions on their own --------------- *)
\* The pure Machine API applied to every definition, with the counter n of
\* the definition's context drawn from 0..MaxCount.
MachEvents ==
  {Ev("string", t, TRUE) :
     t \in {"NEXT", "GO", "INC", "TRY", "TICK", "PICK", "SELF", "BACK", "LOST", "BOGUS", ""}}
    \cup {Ev("number", "", FALSE)}

StateInputs(cfg, h) ==
  {NoPrev}
    \cup {PrevName(v) : v \in DOMAIN cfg.states \cup {"nowhere"}}
    \cup {PrevObj([value |-> v, ctx |-> a]) : v \in DOMAIN cfg.states, a \in {0} \cup DOMAIN h}

MachHeap(cfg, n) == IF cfg.hasContext THEN <<[cfg.context EXCEPT !["n"] = n]>> ELSE <<>>

MachInit ==
  /\ def \in MachDefIds
  /\ heap \in {MachHeap(Cfg(def), n) : n \in 0..MaxCount}
  /\ svc = [i \in SvcIds |-> xfsm_service_init(Cfg(def))]
  /\ active = {}
  /\ last = [op |-> "init", sid |-> 1, event |-> NoEvent, id |-> 0, ret |-> "",
             pre |-> xfsm_service_init(Cfg(def)), preHeap |-> heap,
             log |-> <<>>, preGone |-> {}, preCleared |-> {},
             prev |-> NoPrev, ok |-> FALSE, st |-> NoState, cand |-> NoCand]
  /\ hist = [fold |-> [i \in SvcIds |-> ""],
             gone |-> [i \in SvcIds |-> {}],
             cleared |-> [i \in SvcIds |-> {}]]

MachCommit(op, prev, event, r) ==
  /\ heap' = r.w.heap
  /\ svc' = r.w.svc
  /\ last' = [op |-> op, sid |-> 1, event |-> event, id |-> 0, ret |-> "",
              pre |-> svc[1], preHeap |-> heap, log |-> r.w.log,
              preGone |-> {}, preCleared |-> {},
              prev |-> prev, ok |-> r.ok, st |-> r.st, cand |-> r.cand]

\* Machine.initialState(): the state object is built, nothing is called
InitialResult(w, st) == [w |-> w, ok |-> st.present, st |-> st, cand |-> NoCand]
MachInitialState ==
  /\ MachCommit("initialState", NoPrev, NoEvent,
                InitialResult(World(heap, svc, <<>>), xfsm_machine_initial_state(Cfg(def))))
  /\ UNCHANGED <<def, active, hist>>

\* Machine.transition(state | name | nothing, event)
MachTransition == \E prev \in StateInputs(Cfg(def), heap), e \in MachEvents :
  /\ MachCommit("transition", prev, e,
                xfsm_machine_transition(World(heap, svc, <<>>), Cfg(def), prev, e))
  /\ UNCHANGED <<def, active, hist>>

MachNext == MachInitialState \/ MachTransition

MachineSpec == MachInit /\ [][MachNext]_vars

(* ============================== properties ============================ *)
S == svc[last.sid]
P == last.pre
C == Cfg(def)

LogOf(kind) == SelectSeq(last.log, LAMBDA e : e.kind = kind)
Names(lg) == [k \in 1..Len(lg) |-> lg[k].name]
Fired == [k \in 1..Len(LogOf("listener")) |->
            [id |-> LogOf("listener")[k].lid, cb |-> LogOf("listener")[k].name]]
FiredIds == {Fired[k].id : k \in 1..Len(Fired)}

\* the functions a list of direct-function items calls, in order
RECURSIVE DirectCalls(_)
DirectCalls(items) ==
  IF items = <<>> THEN <<>>
  ELSE (CASE Head(items).kind = "fn" -> <<Head(items).name>>
          [] Head(items).kind = "object" /\ Head(items).exec # "" -> <<Head(items).exec>>
          [] OTHER -> <<>>) \o DirectCalls(Tail(items))

\* the service and the heap are exactly as before the call
Untouched == S = P /\ heap = last.preHeap

\* the transition function applied to the state committed before the call
FromCommitted ==
  xfsm_machine_transition_ex(last.preHeap, C, PrevObj(P.state),
                             xfsm_normalize_event(last.event).type)

\* C1: for a Running service the committed state value equals the fold of
\* the transition function over the events sent since start, from initial.
C1_SendFoldsTransition ==
  \A i \in active : svc[i].status = "Running" => svc[i].state.value = hist.fold[i]

\* C2: a send to a Running service for which the transition function, from
\* the current state, yields no transition returns the no-transition signal,
\* changes nothing, runs no action and notifies no listener.
C2_NoTransitionNoEffect ==
  (last.op = "send" /\ P.status = "Running" /\ xfsm_normalize_event(last.event).ok
     /\ ~FromCommitted.ok)
  => (last.ret = "0" /\ Untouched /\ LogOf("action") = <<>> /\ LogOf("listener") = <<>>)

\* C3: send on a NotStarted or Stopped service returns no transition,
\* evaluates no guard, runs no action, notifies no listener, changes nothing.
C3_SendNotRunningNoOp ==
  (last.op = "send" /\ P.status \in {"NotStarted", "Stopped"})
  => (last.ret = "0" /\ last.log = <<>> /\ Untouched)

C3_Witness ==
  /\ last.op = "send" /\ P.status = "Stopped" /\ def = "light"
  /\ last.event = Ev("string", "NEXT", TRUE) /\ Len(P.listeners) > 0

\* C4: start() on a Running service returns the service and changes nothing;
\* no entry action is re-run and no listener is notified.
C4_StartIdempotent ==
  (last.op = "start" /\ P.status = "Running")
  => (last.ret = "svc" /\ Untouched /\ last.log = <<>>)

C4_Witness ==
  /\ last.op = "start" /\ P.status = "Running"
  /\ P.state.value # C.initial /\ Len(P.listeners) > 0

\* C5: start() on a Stopped service sets status Running, sets the state value
\* to the definition's initial state and runs the initial state's entry
\* actions exactly once.
C5_RestartFromInitial ==
  (last.op = "start" /\ P.status = "Stopped")
  => /\ S.status = "Running"
     /\ S.state.value = C.initial
     /\ Names(LogOf("action")) = DirectCalls(C.states[C.initial].entry)

C5_Witness ==
  /\ last.op = "start" /\ P.status = "Stopped" /\ P.state.value # C.initial
  /\ Len(LogOf("action")) = 1

\* C6: stop() sets status Stopped, empties the listener table and leaves the
\* committed state and the context as they were.
C6_StopFrame ==
  last.op = "stop"
  => /\ S.status = "Stopped" /\ S.listeners = <<>>
     /\ S.state = P.state /\ S.ctx = P.ctx /\ heap = last.preHeap

C6_Witness ==
  /\ last.op = "stop" /\ P.status = "Running" /\ Len(P.listeners) = 2
  /\ P.state.value # C.initial

\* C7 (as stated): status changes only NotStarted -> Running by start,
\* Running -> Stopped by stop, Stopped -> Running by start.
C7_StatusEdgesOriginal ==
  (last.op # "init" /\ S.status # P.status)
  => \/ (P.status = "NotStarted" /\ S.status = "Running" /\ last.op = "start")
     \/ (P.status = "Running" /\ S.status = "Stopped" /\ last.op = "stop")
     \/ (P.status = "Stopped" /\ S.status = "Running" /\ last.op = "start")

\* C7 (amended): as above, and stop() also takes NotStarted -> Stopped;
\* status never returns to NotStarted.
C7_StatusEdges ==
  (last.op # "init" /\ S.status # P.status)
  => \/ (P.status = "NotStarted" /\ S.status = "Running" /\ last.op = "start")
     \/ (P.status = "Running" /\ S.status = "Stopped" /\ last.op = "stop")
     \/ (P.status = "Stopped" /\ S.status = "Running" /\ last.op = "start")
     \/ (P.status = "NotStarted" /\ S.status = "Stopped" /\ last.op = "stop")

C7_Witness ==
  last.op = "stop" /\ P.status = "NotStarted" /\ S.status = "Stopped"

\* C8: a send that produces a transition invokes every subscribed listener
\* exactly once, in subscription order, with the newly committed state.
C8_NotifyAllInOrder ==
  (last.op = "send" /\ last.ret # "0")
  => /\ Fired = P.listeners
     /\ \A k \in 1..Len(LogOf("listener")) :
          /\ LogOf("listener")[k].val = S.state.value
          /\ LogOf("listener")[k].ctx = Deref(heap, S.state.ctx)

C8_Witness ==
  /\ last.op = "send" /\ last.ret # "0" /\ Len(P.listeners) = 2
  /\ Len(LogOf("listener")) = 2 /\ P.listeners[1].cb # P.listeners[2].cb

\* C9: in start() and send() listeners run only after the whole action list
\* has run and state, context and status have been committed: each listener
\* receives the committed state, which is what getState() returns then, and
\* sees status Running.
C9_CommitBeforeNotify ==
  (last.op \in {"start", "send"})
  => \A k \in 1..Len(last.log) :
       last.log[k].kind = "listener"
       => /\ last.log[k].status = "Running"
          /\ last.log[k].cur = last.log[k].val
          /\ last.log[k].val = S.state.value
          /\ last.log[k].ctx = Deref(heap, S.ctx)
          /\ S.state.ctx = S.ctx
          /\ \A j \in 1..Len(last.log) : last.log[j].kind = "action" => j < k

C9_Witness ==
  /\ last.op = "start" /\ P.status = "NotStarted"
  /\ Len(LogOf("listener")) > 0 /\ Len(LogOf("action")) > 0

\* C10: unsubscribe() of one handle removes only that handle's listener; on
\* the next transition every other subscribed listener fires exactly once
\* and the unsubscribed one does not fire.
C10_UnsubscribeScoped ==
  /\ last.op = "unsubscribe"
     => /\ Ids(S.listeners) = Ids(P.listeners) \ {last.id}
        /\ Len(S.listeners) = Cardinality(Ids(S.listeners))
  /\ (last.op = "send" /\ last.ret # "0")
     => /\ FiredIds = (1..(P.nextId - 1)) \ (hist.gone[last.sid] \cup hist.cleared[last.sid])
        /\ Len(Fired) = Cardinality(FiredIds)

C10_Witness ==
  /\ last.op = "send" /\ last.ret # "0"
  /\ hist.gone[last.sid] = {2} /\ hist.cleared[last.sid] = {}
  /\ FiredIds = {1, 3}


\* C11: a listener that was in the table at a stop() of its service is never
\* invoked by any later operation, whatever restarts and transitions follow;
\* whatever fires afterwards was subscribed after that stop().
C11_ClearedNeverFire ==
  /\ FiredIds \cap last.preCleared = {}
  /\ FiredIds \cap hist.cleared[last.sid] = {}
  /\ last.op \in {"start", "send"} => FiredIds \subseteq Ids(S.listeners)

C11_Witness ==
  /\ last.op = "send"
  /\ last.ret # "0"
  /\ last.preCleared # {}
  /\ FiredIds # {}

\* C12: calling a handle's unsubscribe() when it has been called before, or
\* after a stop() cleared the table, returns false and changes nothing.
C12_UnsubscribeIdempotent ==
  (last.op = "unsubscribe" /\ last.id \in last.preGone \cup last.preCleared)
    => (last.ret = "false" /\ Untouched)

C12_Witness ==
  /\ last.op = "unsubscribe"
  /\ last.id \in last.preGone
  /\ last.id \notin last.preCleared
  /\ P.listeners # <<>>
  /\ last.ret = "false"


\* C13: for a definition whose initial state exists, Machine.initialState()
\* returns value = initial, the definition's context, exactly the initial
\* state's entry list as actions and changed = false, and calls nothing.
C13_InitialState ==
  (last.op = "initialState" /\ C.initial \in DOMAIN C.states)
    => /\ last.ok /\ last.st.present
       /\ last.st.value = C.initial
       /\ last.st.ctx = CfgCtx(C)
       /\ last.st.actions = C.states[C.initial].entry
       /\ last.st.changed = FALSE
       /\ last.log = <<>>
       /\ Untouched

C13_Witness ==
  /\ last.op = "initialState"
  /\ C.initial \in DOMAIN C.states
  /\ Len(last.st.actions) = 2
  /\ C.states[C.initial].exit = <<>>

\* C14: when the definition's initial name is not a key of states,
\* Machine.initialState() returns no state.
C14_NoInitialNoState ==
  (last.op = "initialState" /\ C.initial \notin DOMAIN C.states)
    => (~last.ok /\ ~last.st.present)


\* the source state name a Machine.transition call resolves: the name given,
\* or the definition's initial when none is given
FromName ==
  IF last.prev.kind = "none" \/ last.prev.value = "" THEN C.initial ELSE last.prev.value

\* the call had no on entry to work with: the source state does not exist
\* or it has no entry for the event's type
NoOnEntry ==
  \/ FromName \notin DOMAIN C.states
  \/ last.event.type \notin DOMAIN C.states[FromName].on

\* C15: Machine.transition for a (state, event) pair whose state has no on
\* entry for the event's type, or whose state does not exist, returns no
\* transition and calls no guard and no action.
C15_NoEntryNoTransition ==
  (last.op = "transition" /\ last.event.kind = "string" /\ NoOnEntry)
    => /\ ~last.ok /\ ~last.st.present
       /\ last.log = <<>>
       /\ Untouched

C15_Witness ==
  /\ last.op = "transition"
  /\ def = "gate"
  /\ last.prev = PrevName("busy")
  /\ last.event = Ev("string", "INC", TRUE)
  /\ ~last.ok


\* the same Machine.transition call made again, now
CalledAgain == xfsm_machine_transition(World(heap, svc, <<>>), C, last.prev, last.event)

\* C16: Machine.transition calls guards only, never an action, and changes
\* neither the definition's context nor any service; made again with the
\* same state and event it returns the same value, actions and changed.
C16_TransitionPure ==
  last.op = "transition"
    => /\ \A k \in 1..Len(last.log) : last.log[k].kind = "guard"
       /\ heap = last.preHeap
       /\ \A i \in SvcIds : svc[i] = xfsm_service_init(C)
       /\ CalledAgain.ok = last.ok
       /\ CalledAgain.st = last.st

C16_Witness ==
  /\ last.op = "transition"
  /\ last.ok
  /\ last.st.actions # <<>>
  /\ last.log # <<>>
  /\ last.st.changed


EntryOf(v) == IF v \in DOMAIN C.states THEN C.states[v].entry ELSE <<>>
ExitOf(v) == IF v \in DOMAIN C.states THEN C.states[v].exit ELSE <<>>

\* a send to a Running service
RunningSend == last.op = "send" /\ P.status = "Running"

\* C17: for a targeted transition from S to T the action list is exit(S),
\* then the transition's actions, then entry(T); a send of an event that is
\* a targeted transition from the service's state executes exactly the
\* calls of that list, once each, in that order.
C17_TargetedListExecuted ==
  /\ (last.op = "transition" /\ last.ok /\ last.cand.target # "")
       => last.st.actions
            = ExitOf(FromName) \o last.cand.actions \o EntryOf(last.cand.target)
  /\ (RunningSend /\ FromCommitted.ok /\ FromCommitted.cand.target # "")
       => /\ FromCommitted.st.actions
               = ExitOf(P.state.value) \o FromCommitted.cand.actions
                   \o EntryOf(FromCommitted.cand.target)
          /\ Names(LogOf("action")) = DirectCalls(FromCommitted.st.actions)

\* C18: a targetless transition has changed = false, value = the source and
\* the list exit(source) then the transition's actions, without entry; after
\* a send of an event that is targetless from the service's state, the
\* service's state value is what it was.
C18_Targetless ==
  /\ (last.op = "transition" /\ last.ok /\ last.cand.target = "")
       => /\ last.st.changed = FALSE
          /\ last.st.value = FromName
          /\ last.st.actions = ExitOf(FromName) \o last.cand.actions
  /\ (RunningSend /\ FromCommitted.ok /\ FromCommitted.cand.target = "")
       => S.state.value = P.state.value

\* C19: changed is true exactly when the selected transition has a target
\* that differs from the source; an explicit self-transition has changed =
\* false and value = source, and its list still holds exit(source), the
\* transition's actions and entry(source).
C19_ChangedIffMoved ==
  (last.op = "transition" /\ last.ok)
    => /\ last.st.changed = (last.cand.target # "" /\ last.cand.target # FromName)
       /\ last.cand.target = FromName
            => /\ last.st.changed = FALSE
               /\ last.st.value = FromName
               /\ last.st.actions
                    = ExitOf(FromName) \o last.cand.actions \o EntryOf(FromName)

C19_Witness ==
  /\ last.op = "transition"
  /\ last.ok
  /\ last.cand.target = FromName
  /\ Len(last.st.actions) = 3
  /\ ExitOf(FromName) # <<>> /\ EntryOf(FromName) # <<>>

\* the context a Machine.transition call hands to guards
GuardCtxOf ==
  Deref(last.preHeap, IF last.prev.kind = "object" /\ last.prev.ctx # 0
                      THEN last.prev.ctx ELSE CfgCtx(C))

\* the cond of a candidate is absent or returns a truthy value; a named cond
\* returns what the function found under that name returns
CondHolds(c) ==
  CASE c.cond.kind = "none" -> TRUE
    [] c.cond.kind = "fn" -> Truthy(ValueFn(c.cond.name, GuardCtxOf, last.event.type))
    [] OTHER -> /\ Lookup(ActsMap(C), c.cond.name) # ""
                /\ Truthy(ValueFn(Lookup(ActsMap(C), c.cond.name), GuardCtxOf,
                                   last.event.type))

\* C20: among the candidates of on[event], in declared order, the selected
\* one is the first whose cond is absent or returns a truthy value; when
\* every candidate has a cond that returns a falsy value there is no
\* transition.
C20_FirstMatch ==
  (last.op = "transition" /\ last.event.kind = "string" /\ ~NoOnEntry)
    => LET cands == C.states[FromName].on[last.event.type].cands
           elig == {k \in 1..Len(cands) : CondHolds(cands[k])}
       IN IF elig = {}
          THEN ~last.ok
          ELSE /\ last.ok
               /\ last.cand = cands[CHOOSE k \in elig : \A j \in elig : k <= j]


\* the candidates of the on entry a Machine.transition call worked with
CandsOf == C.states[FromName].on[last.event.type].cands

\* C21: during one Machine.transition call the guards are invoked in
\* declared candidate order, each at most once, and no guard of a candidate
\* after the selected one is invoked.
C21_GuardOrder ==
  (last.op = "transition" /\ last.event.kind = "string" /\ ~NoOnEntry)
    => /\ \A k \in 1..Len(last.log) : last.log[k].kind = "guard"
       /\ \E upto \in 0..Len(CandsOf) :
            /\ last.ok => (upto >= 1 /\ CandsOf[upto] = last.cand)
            /\ \E pos \in [1..Len(last.log) -> 1..upto] :
                 /\ \A j \in 1..Len(last.log) :
                      /\ CandsOf[pos[j]].cond.kind # "none"
                      /\ CandsOf[pos[j]].cond.name = last.log[j].name
                 /\ \A j \in 1..Len(last.log) : \A l \in 1..Len(last.log) :
                      j < l => pos[j] < pos[l]

C21_Witness ==
  /\ last.op = "transition"
  /\ ~NoOnEntry
  /\ Len(CandsOf) = 2
  /\ CandsOf[2].cond.kind = "fn"
  /\ last.ok /\ last.cand = CandsOf[1]
  /\ Names(last.log) = <<CandsOf[1].cond.name>>


\* C22: a transition whose cond is a name is eligible only if the function
\* found under that name in the lookup table returns a truthy value; a named
\* guard whose function returns a falsy value blocks its candidate.
C22_NamedGuard ==
  (last.op = "transition" /\ last.ok /\ last.cand.cond.kind = "string")
    => CondHolds(last.cand)


\* C23: a transition whose target is not a key of states is no transition,
\* for Machine.transition and for send; so the committed state value of a
\* Running service is always a key of the definition's states.
C23_TargetExists ==
  /\ (last.op = "transition" /\ last.ok) => last.st.value \in DOMAIN C.states
  /\ (RunningSend /\ last.ret # "0") => last.ret \in DOMAIN C.states
  /\ \A i \in active :
       svc[i].status = "Running" => svc[i].state.value \in DOMAIN C.states


\* the guard calls of the last operation
GuardLog == LogOf("guard")

\* C24: a guard is evaluated against the prior state's context when a state
\* object is supplied and against the definition's context otherwise; every
\* guard evaluated by a send receives the service's current context, with
\* all assignments committed by earlier calls, also when the definition
\* declared no context.
C24_GuardContext ==
  /\ last.op = "transition"
       => \A k \in 1..Len(GuardLog) : GuardLog[k].ctx = GuardCtxOf
  /\ RunningSend
       => \A k \in 1..Len(GuardLog) : GuardLog[k].ctx = Deref(last.preHeap, P.ctx)

\* C25: once start() has returned with status Running the service's context
\* is an object, never absent, also when the definition declares no context
\* and no assignment has run.
C25_ContextNeverNull ==
  \A i \in active : svc[i].status = "Running" => svc[i].ctx # 0


\* C26: two services of the same machine have independent contexts and
\* states and the definition stays read-only: an operation of one service
\* changes neither the other service's state and context, nor the context
\* Machine.initialState() returns afterwards.
C26_ServicesIndependent ==
  last.op \in {"start", "stop", "send"}
    => /\ \A j \in active \ {last.sid} :
            Deref(heap, svc[j].ctx) = Deref(last.preHeap, svc[j].ctx)
       /\ Deref(heap, xfsm_machine_initial_state(C).ctx) = C.context


\* the map-form assignment { k: ctx => ctx.k + 1 }
IncFn(k) == IF k = "n" THEN "incN" ELSE "incCount"
IncItem(k) == AssignMap(<<KeyFn(k, IncFn(k))>>)

\* the list holds that assignment once and no other object-form item
OneIncrement(acts, k) ==
  /\ Cardinality({j \in 1..Len(acts) : acts[j] = IncItem(k)}) = 1
  /\ \A j \in 1..Len(acts) : acts[j].kind = "object" => acts[j] = IncItem(k)

\* C27: a send whose action list contains the map-form assignment
\* { k: ctx => ctx.k + 1 } increases the service's context.k by exactly 1,
\* and the new value is in the service's context right after that send (so
\* n sends in a row increase it by n).
C27_IncrementByOne ==
  (RunningSend /\ last.ret # "0")
    => \A k \in {"n", "count"} :
         (OneIncrement(S.state.actions, k) /\ Deref(last.preHeap, P.ctx)[k] >= 0)
           => Deref(heap, S.ctx)[k] = Deref(last.preHeap, P.ctx)[k] + 1

C27_Witness ==
  /\ RunningSend /\ last.ret # "0"
  /\ OneIncrement(S.state.actions, "n")
  /\ Deref(last.preHeap, P.ctx)["n"] = 1
  /\ Deref(heap, S.ctx)["n"] = 2


\* the value a patch gives to key k, Undef when k is not a key of the patch
PatchValue(entries, k) ==
  LET hits == {j \in 1..Len(entries) : entries[j].key = k}
  IN IF hits = {} THEN Undef ELSE entries[CHOOSE j \in hits : \A l \in hits : l <= j].val

\* C28: function-form assignment is a shallow overwrite-merge: when the
\* function returns an object, the context afterwards maps every key of that
\* object to its value and every other key to its previous value; when it
\* returns a non-object, the context is unchanged.
C28_FunctionFormMerge ==
  (RunningSend /\ last.ret # "0" /\ Len(S.state.actions) = 1
     /\ S.state.actions[1].assignment.kind = "fn")
    => LET before == Deref(last.preHeap, P.ctx)
           after == Deref(heap, S.ctx)
           res == PatchFn(S.state.actions[1].assignment.fn, before, last.event.type)
       IN IF res.isObj
          THEN \A k \in Keys :
                 after[k] = IF PatchValue(res.entries, k) # Undef
                            THEN PatchValue(res.entries, k) ELSE before[k]
          ELSE after = before

C28_Witness ==
  /\ RunningSend /\ last.ret # "0"
  /\ S.state.actions = <<AssignFn("bumpN")>>
  /\ Deref(last.preHeap, P.ctx)["count"] = 1
  /\ Deref(last.preHeap, P.ctx)["n"] = 1
  /\ Deref(heap, S.ctx)["count"] = 1
  /\ Deref(heap, S.ctx)["n"] = 2


\* the event object that normalization hands on: { type: <string> }
NormalForm(event) == [kind |-> "object", type |-> xfsm_normalize_event(event).type,
                      hasType |-> TRUE]

\* the send of the last operation made instead with event e, from the same
\* state of the service and the heap
SendInstead(e) ==
  xfsm_service_send(World(last.preHeap, [svc EXCEPT ![last.sid] = P], <<>>),
                    last.sid, C, e)

\* C29: a bare string s is treated as { type: s }: sending the string and
\* sending the object select the same transition and commit the same state;
\* an object event whose type is missing or not a string is given type "";
\* normalizing an already normalized event changes nothing.
C29_EventNormalization ==
  RunningSend
    => /\ last.event.kind = "string"
            => LET alt == SendInstead([kind |-> "object", type |-> last.event.type,
                                       hasType |-> TRUE])
               IN /\ alt.ret = last.ret
                  /\ alt.w.svc = svc
                  /\ alt.w.heap = heap
                  /\ alt.w.log = last.log
       /\ (last.event.kind = "object" /\ ~last.event.hasType)
            => /\ xfsm_normalize_event(last.event) = [ok |-> TRUE, type |-> ""]
               /\ last.ret = "0" /\ Untouched
       /\ xfsm_normalize_event(last.event).ok
            => /\ xfsm_normalize_event(NormalForm(last.event))
                    = xfsm_normalize_event(last.event)
               /\ NormalForm(NormalForm(last.event)) = NormalForm(last.event)

C29_Witness ==
  /\ RunningSend
  /\ last.event.kind = "string"
  /\ last.ret # "0"
  /\ S.state.changed
  /\ SendInstead([kind |-> "object", type |-> last.event.type, hasType |-> TRUE]).ret
       = last.ret


C31_StateContextIsServiceContext ==
  \A i \in active : svc[i].state.ctx = svc[i].ctx

C31_Witness ==
  /\ RunningSend /\ last.ret # "0"
  /\ CfgCtx(C) = 0
  /\ P.ctx # 0
  /\ S.state.ctx = S.ctx

\* the context the call found: the service's _context before the operation
PreCtx == Deref(last.preHeap, P.ctx)

\* an operation that ran an action list: a first start or a restart, or a
\* send that produced a transition
RanList ==
  \/ last.op = "start" /\ P.status # "Running" /\ last.ret = "svc"
  \/ RunningSend /\ last.ret # "0"

\* a list of direct functions and one-key map-form assignments only
IsMapAssign(item) ==
  /\ item.kind = "object" /\ item.exec = "" /\ item.type = ""
  /\ item.assignment.kind = "none" /\ Len(item.entries) = 1
PlainList(acts) == \A k \in 1..Len(acts) : acts[k].kind = "fn" \/ IsMapAssign(acts[k])

\* the position in the call log of the function item at position k
CallNo(acts, k) == Cardinality({j \in 1..k : acts[j].kind = "fn"})

\* the assignments to key before position k
WritersBefore(acts, k, key) ==
  {j \in 1..(k - 1) : IsMapAssign(acts[j]) /\ acts[j].entries[1].key = key}

\* what the assignment at position j writes, read off the definition: a
\* constant, or its function applied to the context the operation found
\* (when no assignment precedes it)
Written(acts, j) ==
  LET e == acts[j].entries[1]
  IN IF e.isFn THEN ValueFn(e.fn, PreCtx, last.event.type) ELSE e.val

\* C32: within one action list, a function action that follows an assign
\* action is invoked with a context that already contains that assign's
\* patch: for a key written once before the function, the context argument
\* of the call holds the written value.
C32_LaterActionSeesPatch ==
  (RanList /\ PlainList(S.state.actions))
    => LET acts == S.state.actions
           calls == LogOf("action")
       IN \A k \in 1..Len(acts) : \A key \in Keys :
            (/\ acts[k].kind = "fn"
             /\ Cardinality(WritersBefore(acts, k, key)) = 1
             /\ \A j \in WritersBefore(acts, k, key) :
                  acts[j].entries[1].isFn => \A l \in 1..(j - 1) : acts[l].kind = "fn")
              => /\ CallNo(acts, k) <= Len(calls)
                 /\ \A j \in WritersBefore(acts, k, key) :
                      calls[CallNo(acts, k)].ctx[key] = Written(acts, j)

C32_Witness ==
  /\ RunningSend /\ last.ret # "0" /\ last.event.type = "STEP"
  /\ PreCtx["n"] = 1 /\ PreCtx["count"] = 0
  /\ Len(LogOf("action")) = 2
  /\ LogOf("action")[1].ctx["n"] = 2 /\ LogOf("action")[1].ctx["count"] = 0
  /\ LogOf("action")[2].ctx["count"] = 1


\* C33: the committed context is persisted once per start/send, after the
\* last item of the list: during every call made while the list executes,
\* the service's own context (and the context of getState()) still holds
\* the value it had before the operation.
C33_PersistedAfterList ==
  RanList
    => \A k \in 1..Len(LogOf("action")) :
         /\ LogOf("action")[k].own = PreCtx
         /\ LogOf("action")[k].cur = P.state.value


\* the four tables in lookup order, and the first of them that is present
Chain(cfg) == <<cfg.svcOptions, cfg.machOptions, cfg.options, cfg.actions>>
FirstTable(cfg) ==
  LET here == {k \in 1..4 : Chain(cfg)[k].present}
  IN IF here = {} THEN NoTable ELSE Chain(cfg)[CHOOSE k \in here : \A l \in here : k <= l]

\* the functions table t holds under name
Under(t, name) == {t.tbl[j].fn : j \in {l \in 1..Len(t.tbl) : t.tbl[l].name = name}}

\* a list of direct functions and bare names only
NamesList(acts) == \A k \in 1..Len(acts) : acts[k].kind \in {"fn", "string"}

\* the items of such a list that make a call when names are resolved in t
Calling(acts, t) ==
  {k \in 1..Len(acts) : acts[k].kind = "fn" \/ Under(t, acts[k].name) # {}}

IsTypedName(item) ==
  /\ item.kind = "object" /\ item.exec = "" /\ item.assignment.kind = "none"
  /\ item.entries = <<>> /\ item.type \notin {"", "assign", "xstate.assign"}

\* the name an item refers to, "" if it is not a name
NameOf(item) ==
  CASE item.kind = "string" -> item.name
    [] IsTypedName(item) -> item.type
    [] OTHER -> ""

\* a list of direct functions and names (in either form), of which at least
\* one name is not in the table
HasUnknownName(acts, t) ==
  /\ \A k \in 1..Len(acts) : acts[k].kind = "fn" \/ NameOf(acts[k]) # ""
  /\ \E k \in 1..Len(acts) : NameOf(acts[k]) # "" /\ Under(t, NameOf(acts[k])) = {}

\* C35: an action item that is a name (a bare string or { type: name }) not
\* found in the table is skipped: it calls nothing and changes nothing, the
\* other items are still executed in order, and the transition is committed
\* and notified.
C35_UnknownNameSkipped ==
  (RunningSend /\ last.ret # "0" /\ HasUnknownName(S.state.actions, FirstTable(C)))
    => LET acts == S.state.actions
           t == FirstTable(C)
           made == {k \in 1..Len(acts) :
                      acts[k].kind = "fn" \/ Under(t, NameOf(acts[k])) # {}}
           calls == LogOf("action")
           nth(k) == Cardinality({j \in made : j <= k})
       IN /\ Len(calls) = Cardinality(made)
          /\ \A k \in made : acts[k].kind = "fn" => calls[nth(k)].name = acts[k].name
          /\ Deref(heap, S.ctx) = PreCtx
          /\ S.state.value = last.ret
          /\ Fired = P.listeners


\* the positions of the function that throws
Faults(acts) == {k \in 1..Len(acts) : acts[k] = FnItem("boom")}

\* the assignments to key anywhere in the list
Writers(acts, key) == WritersBefore(acts, Len(acts) + 1, key)

\* C36: no rollback on fault: when an action of the list run by start or
\* send faults, the patches of the assignments that ran before it are in
\* the service's context after the operation.
C36_NoRollbackOnFault ==
  (RanList /\ PlainList(S.state.actions))
    => LET acts == S.state.actions
       IN \A k \in Faults(acts) : \A key \in Keys :
            (/\ Cardinality(Writers(acts, key)) = 1
             /\ Writers(acts, key) = WritersBefore(acts, k, key)
             /\ \A j \in Writers(acts, key) :
                  acts[j].entries[1].isFn => \A l \in 1..(j - 1) : acts[l].kind = "fn")
              => /\ "boom" \in {LogOf("action")[c].name : c \in 1..Len(LogOf("action"))}
                 /\ \A j \in Writers(acts, key) :
                      Deref(heap, S.ctx)[key] = Written(acts, j)

C36_Witness ==
  /\ RunningSend /\ last.ret # "0" /\ last.event.type = "FAIL"
  /\ Faults(S.state.actions) = {2}
  /\ Names(LogOf("action")) = <<"boom", "logB", "logEntry">>
  /\ PreCtx["n"] = 1 /\ Deref(heap, S.ctx)["n"] = 2


\* C37: send(), getState(), getStatus() and the numeric status getter never
\* change the service's status.
C37_StatusFrame ==
  last.op \in {"send", "getState", "getStatus", "getStatusNum"} => S.status = P.status

C37_Witness ==
  /\ last.op = "send" /\ last.ret # "0" /\ P.status = "Running"
  /\ S.state.value # P.state.value /\ Len(LogOf("action")) > 0 /\ Len(Fired) > 0
  /\ S.status = "Running"

\* the getters report the status and write nothing
GettersReadOnly ==
  last.op \in {"getState", "getStatus", "getStatusNum"}
    => /\ Untouched /\ last.log = <<>>
       /\ last.op = "getStatus" => last.ret = P.status
       /\ last.op = "getStatusNum"
            => last.ret = (CASE P.status = "Running" -> "1" [] P.status = "Stopped" -> "2"
                             [] OTHER -> "0")


\* C38: if Machine.initialState() yields no state, start() on a NotStarted
\* or Stopped service fails without effect: status, state, context and
\* listeners are unchanged, no entry action is run, no listener is notified.
C38_StartWithoutInitialState ==
  (last.op = "start" /\ P.status \in {"NotStarted", "Stopped"}
     /\ ~xfsm_machine_initial_state(C).present)
    => (last.ret = "0" /\ Untouched /\ last.log = <<>>)

C38_Witness ==
  /\ last.op = "start" /\ P.status = "Stopped" /\ C.initial = ""
  /\ Len(P.listeners) = 2 /\ last.ret = "0" /\ S.status = "Stopped"


\* the sends made from inside callbacks during the operation, in order
Replies == LogOf("reply")

RepliesTo(name) == SelectSeq(last.log, LAMBDA e : e.kind = "reply" /\ e.name = name)

\* the value the transition function gives from the committed state st
ValueFrom(st, evType) ==
  LET t == xfsm_machine_transition_ex(last.preHeap, C, PrevObj(st), evType)
  IN IF t.ok THEN t.st.value ELSE "0"

\* C39: when an action run by send(e1) calls send(e2) on the same service
\* (and no listener sends), the inner send computes its transition from the
\* state committed before e1 and has committed it when it returns; the outer
\* send commits after it, so that when the outer send returns the state
\* value is the value the outer send returns.
C39_ReentrantSendFromAction ==
  (RunningSend /\ last.ret # "0" /\ RepliesTo("resend") # <<>>
     /\ Replies = RepliesTo("resend"))
    => /\ \A k \in 1..Len(Replies) :
            /\ Replies[k].val = ValueFrom(P.state, "E2")
            /\ Replies[k].val # "0" => Replies[k].cur = Replies[k].val
       /\ S.state.value = last.ret


\* the state value of the last notification listener id received, "" if none
LastNotified(id) ==
  LET mine == SelectSeq(last.log, LAMBDA e : e.kind = "listener" /\ e.lid = id)
  IN IF mine = <<>> THEN "" ELSE mine[Len(mine)].val

\* the inner sends start from the state the outer send committed
InnerFromOuterCommit ==
  \A k \in 1..Len(Replies) :
    Replies[k].val = ValueFrom([value |-> last.ret, ctx |-> S.ctx], "E2")

\* every subscribed listener was last notified with the final state
NoStaleNotification ==
  \A k \in 1..Len(P.listeners) : LastNotified(P.listeners[k].id) = S.state.value

\* C40: when a listener calls send on the same service during notification,
\* the inner send starts from the outer send's committed state, and after
\* the outermost send returns the last state every subscribed listener was
\* notified with is the service's final committed state.
C40_ListenersSeeCommitsInOrder ==
  (RunningSend /\ last.ret # "0" /\ RepliesTo("cbSend") # <<>>
     /\ Replies = RepliesTo("cbSend"))
    => (InnerFromOuterCommit /\ NoStaleNotification)


\* no callback made a send below the nesting the model follows
NoCutReached == \A k \in 1..Len(Replies) : Replies[k].val # "cut"

====
